---- MODULE Spec2Model ----
(***************************************************************************)
(* PyCurlBrowser: Browser.fetch and Browser.multi_fetch with the file      *)
(* cache (src/__init__.py).  One Browser object is driven by a single      *)
(* thread: a call of fetch or multi_fetch runs to its return or to an      *)
(* exception before the next call starts.  The transfers of multi_fetch    *)
(* make progress inside mcurl.perform() and finish in any order.           *)
(* ListParser and SearchParser (src/parsers.py) drive such a Browser: a    *)
(* listing is read page by page with fetch, its links in bulk with         *)
(* multi_fetch.                                                            *)
(***************************************************************************)
EXTENDS Integers, Sequences, FiniteSets, TLC

(* ------------------------------ bounds --------------------------------- *)
NumUrls == 2            \* distinct acceptable URLs a caller may request
MaxBatch == 3           \* longest url_requests list handed to multi_fetch
MaxCacheBatch == 2      \* longest url_requests list in a run of several calls
MaxConn == 2            \* largest num_conn argument
MaxCalls == 2           \* calls of fetch / multi_fetch in one run (SpecCache)
CacheExpiration == 2    \* kwarg cache_expiration (default 600), in ticks
MaxTime == CacheExpiration  \* between calls the clock runs at most up to here
MaxPages == 3           \* largest max_pages a ListParser is built with
MaxCount == 8           \* largest page count a listing reports
MaxPage == 4            \* last page the listing serves to a stop_function crawl
MaxSearchPages == 2     \* largest max_pages of a SearchParser
MaxHeaderLines == 2     \* most lines of a header block
MaxMatches == 2         \* most results of one xpath query
MaxFields == 2          \* most fields of an extractor

(* ------------------------- program constants --------------------------- *)
MaxUrlLen == 1024       \* len(url) > 1024
ConnWarnLimit == 1024   \* num_conn > 1024
SearchNumConn == 5      \* multi_fetch(links, num_conn=5)
None == "None"

(* ------------------------------- values -------------------------------- *)
\* A URL string: its text (name + query part) and its length.
Url(i) == [name |-> i, query |-> "", len |-> IF i = 1 THEN MaxUrlLen ELSE 16 + i]
PlainUrls == { Url(i) : i \in 1..NumUrls }
UrlLong == [name |-> 0, query |-> "", len |-> MaxUrlLen + 1]
UrlEmpty == [name |-> 0, query |-> "", len |-> 0]
UrlComment == [name |-> 0, query |-> "#", len |-> 9]
BatchUrls == PlainUrls \cup {UrlLong, UrlEmpty, UrlComment}

\* "not url or url[0] == '#'"
UrlSkipped(url) == url.len = 0 \/ url.query = "#"

Methods == {"GET", "POST"}
ParamSets == {"", "k=v"}
Percentiles == {0, 50, 100}

\* What the server sends for a successful transfer: raw body, the
\* Content-Encoding header, status code and content type.
RespPlain == [body |-> [gz |-> FALSE, text |-> "x"], encoding |-> "", code |-> 200, content_type |-> "text/html"]
RespGzip == [body |-> [gz |-> TRUE, text |-> "y"], encoding |-> "gzip", code |-> 404, content_type |-> None]
Responses == {RespPlain, RespGzip}
NoResp == [body |-> [gz |-> FALSE, text |-> ""], encoding |-> "", code |-> 0, content_type |-> None]
\* pycurl.error of a failed transfer: (errno, errmsg)
TransferError == [errno |-> 28, errmsg |-> "timeout"]

NoStruct == [result |-> "none"]
NoFile == [dir |-> None]
EmptyMap == [u \in {} |-> NoStruct]
Put(m, k, v) == [x \in (DOMAIN m) \cup {k} |-> IF x = k THEN v ELSE m[x]]
Min(a, b) == IF a < b THEN a ELSE b

VARIABLES
  cache_method,   \* self.cache_method
  cache_root,     \* self.cache_root
  browser,        \* "ok" once __init__ returned, else the exception it raised
  cache,          \* files under cache_root: filename -> body, sidecar, mtime
  now,            \* time.time()
  pc,             \* position of the running call
  op,             \* the call in progress or last finished
  calls,          \* calls started so far
  url_requests,   \* entries of the batch read so far by the filter loop
  num_conn,       \* argument, then min(num_conn, num_urls)
  percentile,     \* argument
  queue,          \* pending entries
  results,        \* url -> Struct
  handles,        \* mcurl.handles, as a set of handle numbers
  freelist,       \* free handles (a Python list: pop() takes the last)
  curl,           \* per handle: url, id, REFERER option, req, transfer state
  msgs,           \* finished transfers not yet read by info_read
  num_urls,
  num_processed,
  bailout,
  ret,            \* Struct returned by fetch
  exc,            \* exception that ended the call, or None
  warnings,       \* warnings emitted by the call
  transfers,      \* transfers started by the call
  status,         \* per batch entry: what became of it
  num_conn_arg,   \* the num_conn argument as passed
  cache0,         \* the files as the call found them
  parser,         \* the ListParser / SearchParser object: its attributes
  ppc,            \* position of the running parser.fetch()
  pages,          \* page numbers the "for page_num in pages" loop has left
  page_num,       \* page number of the "while True" loop
  page_data,      \* data: body of the page fetched last
  list_results,   \* results of ListParser.fetch
  lresults,       \* lresults of SearchParser.fetch
  todo,           \* keys of entries.items() not yet visited
  fetched,        \* pages fetched by the crawl, in order, with their bodies
  pexc,           \* exception that ended parser.fetch(), or None
  fpc,            \* position of a direct call of __normalize_data or extract
  strbuff,        \* data argument of __normalize_data
  cheaders,       \* cheaders argument of __normalize_data, split on "\n"
  normalized,     \* what __normalize_data returned
  element,        \* data argument of extract
  extractor,      \* extractor.fields
  extracted       \* what extract returned or raised

vars == <<cache_method, cache_root, browser, cache, now, pc, op, calls, url_requests, num_conn, percentile, queue, results, handles, freelist, curl, msgs, num_urls, num_processed, bailout, ret, exc, warnings, transfers, status, num_conn_arg, cache0, parser, ppc, pages, page_num, page_data, list_results, lresults, todo, fetched, pexc, fpc, strbuff, cheaders, normalized, element, extractor, extracted>>

config == <<cache_method, cache_root, browser>>
mlocals == <<url_requests, num_conn, percentile, queue, results, handles, freelist, curl, msgs, num_urls, num_processed, bailout, status, num_conn_arg, cache0>>
pvars == <<parser, ppc, pages, page_num, page_data, list_results, lresults, todo, fetched, pexc>>
bvars == <<config, cache, now, pc, op, calls, mlocals, ret, exc, warnings, transfers>>
fvars == <<fpc, strbuff, cheaders, normalized, element, extractor, extracted>>

(* ------------------------------ the cache ------------------------------ *)
\* __get_filename: os.path.join(cache_root, md5(url)) + "." + method.
\* os.path.join(None, ...) raises AttributeError.
GetFilenameRaises == cache_root = None
GetFilename(url, method) == [dir |-> cache_root, url_hash |-> url, method |-> method]

\* json.dump / json.load of the sidecar
JsonDump(d) == <<"{", d.code, d.content_type, d.url, "}">>
JsonLoad(s) == [code |-> s[2], content_type |-> s[3], url |-> s[4]]

\* as NormalizeData, with the body lost when decompression fails
NormalizeDataLosesBody(body, encoding) ==
  IF encoding = "gzip"
    THEN IF body.gz THEN [gz |-> FALSE, text |-> body.text] ELSE [gz |-> FALSE, text |-> ""]
    ELSE body

\* __normalize_data: gunzip when the header says gzip and the body is a
\* gzip stream; otherwise the body as it came.
NormalizeData(body, encoding) ==
  IF encoding = "gzip"
    THEN IF body.gz THEN [gz |-> FALSE, text |-> body.text] ELSE body
    ELSE body

\* as Cached, with 'forever' entries ageing like 'expire' entries
CachedAged(url, method) ==
  LET filename == GetFilename(url, method) IN
  /\ cache_method \in {"forever", "expire"}
  /\ filename \in DOMAIN cache
  /\ now - cache[filename].mtime < CacheExpiration

\* as Cached, with an entry of age cache_expiration still served
CachedInclusive(url, method) ==
  LET filename == GetFilename(url, method) IN
  \/ cache_method = "forever" /\ filename \in DOMAIN cache
  \/ /\ cache_method = "expire"
     /\ filename \in DOMAIN cache
     /\ now - cache[filename].mtime <= CacheExpiration

\* __load_cached_response: the cached flag
Cached(url, method) ==
  LET filename == GetFilename(url, method) IN
  \/ cache_method = "forever" /\ filename \in DOMAIN cache
  \/ /\ cache_method = "expire"
     /\ filename \in DOMAIN cache
     /\ now - cache[filename].mtime < CacheExpiration

\* __load_cached_response: a Struct, or NoStruct for None
LoadCachedResponse(url, method, uid) ==
  IF cache_method = "never" THEN NoStruct
  ELSE IF Cached(url, method)
    THEN LET filename == GetFilename(url, method)
             metadata == JsonLoad(cache[filename].meta)
         IN [file |-> filename, data |-> cache[filename].data, source |-> "cache",
             result |-> "ok", url |-> metadata.url, code |-> metadata.code,
             content_type |-> metadata.content_type, id |-> uid]
    ELSE NoStruct

\* __cache_response, after its __get_filename call: the files it leaves
\* when it runs at time t
CacheResponse(c, data, t) ==
  IF cache_method \in {"expire", "forever"}
    THEN Put(c, GetFilename(data.url, data.method),
             [data |-> data.data,
              meta |-> JsonDump([code |-> data.code, content_type |-> data.content_type, url |-> data.url]),
              mtime |-> t])
    ELSE c

\* __cache_response: its return value
CacheResponseFile(data) ==
  IF cache_method \in {"expire", "forever"} THEN GetFilename(data.url, data.method) ELSE NoFile

\* __set_request_params: GET appends "?" + params to the url
SetRequestParams(params, url, method) ==
  IF method = "GET"
    THEN [name |-> url.name, query |-> "?" \o params, len |-> url.len + 1 + Len(params)]
    ELSE url

\* The Struct fetch builds from a successful transfer
FetchOkStruct(url, method, resp) ==
  [result |-> "ok", source |-> "web", data |-> NormalizeData(resp.body, resp.encoding),
   code |-> resp.code, content_type |-> resp.content_type, url |-> url, method |-> method]

FetchErrStruct(url, method) ==
  [result |-> "error", source |-> "web", data |-> None, code |-> 0, url |-> url, method |-> method]

(* ------------------------------- __init__ ------------------------------ *)
\* no parser object was built
NoParser == [kind |-> "none"]

\* the locals of parser.fetch() before it is called
ParserIdle ==
  /\ ppc = "idle"
  /\ pages = <<>>
  /\ page_num = 0
  /\ page_data = [isnone |-> TRUE]
  /\ list_results = <<>>
  /\ lresults = <<>>
  /\ todo = {}
  /\ fetched = <<>>
  /\ pexc = None

\* neither __normalize_data nor extract is called on its own
NormalizeIdle == strbuff = None /\ cheaders = <<>> /\ normalized = None
ExtractIdle == element = None /\ extractor = <<>> /\ extracted = None
FunctionIdle == fpc = "none" /\ NormalizeIdle /\ ExtractIdle

Configs == [method : {"never", "forever", "expire"}, root : {None, "dir"}]

\* as InitRaises, with the check made for 'expire' only
InitRaisesExpireOnly(cm, root) == cm = "expire" /\ root = None

\* "if self.cache_method in ['expire', 'forever'] and not self.cache_root"
InitRaises(cm, root) == cm \in {"expire", "forever"} /\ root = None

Init ==
  /\ \E c \in Configs :
       /\ cache_method = c.method
       /\ cache_root = c.root
       /\ browser = IF InitRaises(c.method, c.root) THEN "CacheConfigurationException" ELSE "ok"
  /\ cache \in IF browser = "ok" /\ cache_root # None
                THEN {EmptyMap, CacheResponse(EmptyMap, FetchOkStruct(Url(1), "GET", RespPlain), 0)}
                ELSE {EmptyMap}
  /\ now = 0
  /\ pc = "idle"
  /\ op = "none"
  /\ calls = 0
  /\ url_requests = <<>>
  /\ num_conn = 0
  /\ percentile = 100
  /\ queue = <<>>
  /\ results = EmptyMap
  /\ handles = {}
  /\ freelist = <<>>
  /\ curl = <<>>
  /\ msgs = <<>>
  /\ num_urls = 0
  /\ num_processed = 0
  /\ bailout = 0
  /\ ret = NoStruct
  /\ exc = None
  /\ warnings = {}
  /\ transfers = 0
  /\ status = <<>>
  /\ num_conn_arg = 0
  /\ cache0 = cache
  /\ parser = NoParser
  /\ ParserIdle
  /\ FunctionIdle

\* A call may start when the Browser exists and no call is running.
CanCall == browser = "ok" /\ pc \in {"idle", "done", "raised"}

\* The locals of multi_fetch as a new call finds them.
ResetLocals ==
  /\ url_requests' = <<>>
  /\ queue' = <<>>
  /\ results' = EmptyMap
  /\ handles' = {}
  /\ freelist' = <<>>
  /\ curl' = <<>>
  /\ msgs' = <<>>
  /\ num_urls' = 0
  /\ num_processed' = 0
  /\ bailout' = 0
  /\ status' = <<>>

(* -------------------------------- fetch -------------------------------- *)
\* as FetchTransfers, with the transfer made before the cache is consulted
FetchTransfersAlways(hit) == 1

\* fetch: curl.perform() is reached only when the cache lookup returned None
FetchTransfers(hit) == IF hit # NoStruct THEN 0 ELSE 1

\* as Fetch, with the Struct of a failed transfer written to the cache file
FetchStoresError(url0, method, ref, params, outcome, resp) ==
  LET url == IF params # "" THEN SetRequestParams(params, url0, method) ELSE url0
      hit == LoadCachedResponse(url, method, None)
      result == FetchOkStruct(url, method, resp)
  IN
  /\ CanCall
  /\ op' = "fetch"
  /\ calls' = calls + 1
  /\ ResetLocals
  /\ num_conn' = 0
  /\ num_conn_arg' = 0
  /\ percentile' = 100
  /\ warnings' = {}
  /\ cache0' = cache
  /\ transfers' = FetchTransfers(hit)
  /\ UNCHANGED <<config, now>>
  /\ IF hit # NoStruct
       THEN /\ ret' = hit
            /\ exc' = None
            /\ pc' = "done"
            /\ UNCHANGED cache
       ELSE /\ IF outcome = "ok"
                 THEN IF GetFilenameRaises
                        THEN /\ exc' = "AttributeError"
                             /\ pc' = "raised"
                             /\ ret' = NoStruct
                             /\ UNCHANGED cache
                        ELSE /\ cache' = CacheResponse(cache, result, now)
                             /\ ret' = result @@ [file |-> CacheResponseFile(result)]
                             /\ exc' = None
                             /\ pc' = "done"
                 ELSE /\ ret' = FetchErrStruct(url, method)
                      /\ exc' = None
                      /\ pc' = "done"
                      /\ cache' = IF GetFilenameRaises THEN cache
                                  ELSE CacheResponse(cache, FetchErrStruct(url, method) @@ [content_type |-> None], now)

\* fetch(url, method, ref, params=...): outcome is what curl.perform() does
Fetch(url0, method, ref, params, outcome, resp) ==
  LET url == IF params # "" THEN SetRequestParams(params, url0, method) ELSE url0
      hit == LoadCachedResponse(url, method, None)
      result == FetchOkStruct(url, method, resp)
  IN
  /\ CanCall
  /\ op' = "fetch"
  /\ calls' = calls + 1
  /\ ResetLocals
  /\ num_conn' = 0
  /\ num_conn_arg' = 0
  /\ percentile' = 100
  /\ warnings' = {}
  /\ cache0' = cache
  /\ transfers' = FetchTransfers(hit)
  /\ UNCHANGED <<config, now>>
  /\ IF hit # NoStruct
       THEN /\ ret' = hit
            /\ exc' = None
            /\ pc' = "done"
            /\ UNCHANGED cache
       ELSE /\ IF outcome = "ok"
                 THEN IF GetFilenameRaises
                        THEN /\ exc' = "AttributeError"
                             /\ pc' = "raised"
                             /\ ret' = NoStruct
                             /\ UNCHANGED cache
                        ELSE /\ cache' = CacheResponse(cache, result, now)
                             /\ ret' = result @@ [file |-> CacheResponseFile(result)]
                             /\ exc' = None
                             /\ pc' = "done"
                 ELSE /\ ret' = FetchErrStruct(url, method)
                      /\ exc' = None
                      /\ pc' = "done"
                      /\ UNCHANGED cache

\* time passes: between calls, and while multi_fetch waits for the network
Tick ==
  /\ pc \in {"idle", "done", "raised", "perform"}
  /\ now < MaxTime
  /\ now' = now + 1
  /\ UNCHANGED <<config, cache, pc, op, calls, mlocals, ret, exc, warnings, transfers>>

\* the user deletes a cache file by hand
DeleteEntry(f) ==
  /\ pc \in {"idle", "done", "raised"}
  /\ f \in DOMAIN cache
  /\ cache' = [x \in (DOMAIN cache) \ {f} |-> cache[x]]
  /\ UNCHANGED <<config, now, pc, op, calls, mlocals, ret, exc, warnings, transfers>>

(* ----------------------------- multi_fetch ----------------------------- *)
\* the builtin function id, which line 468 looks up among the entry's keys
BuiltinId == "<built-in function id>"

\* The entries a batch is made of: one per URL; those of the odd-numbered
\* URLs carry a referer and an id.
EntryOf(u) == IF u.name % 2 = 1 THEN [url |-> u, ref |-> "referer", id |-> "key"]
                                ELSE [url |-> u, ref |-> None, id |-> None]
Entries == { EntryOf(u) : u \in BatchUrls }

NewHandle == [url |-> UrlEmpty, id |-> None, referer |-> None, n |-> 0, state |-> "free", resp |-> NoResp]

SeqTo(n) == [i \in 1..n |-> i]

\* multi_fetch(url_requests, num_conn, percentile) is entered
MultiFetchCall(nc, pct) ==
  /\ CanCall
  /\ op' = "multi_fetch"
  /\ calls' = calls + 1
  /\ pc' = "filter"
  /\ ResetLocals
  /\ num_conn' = nc
  /\ num_conn_arg' = nc
  /\ cache0' = cache
  /\ percentile' = pct
  /\ ret' = NoStruct
  /\ exc' = None
  /\ warnings' = {}
  /\ transfers' = 0
  /\ UNCHANGED <<config, cache, now>>

\* one round of "for entry in url_requests"
FilterEntry(entry) ==
  LET url == entry.url
      n == Len(url_requests) + 1
      hit == LoadCachedResponse(url, "GET", entry.id)
  IN
  /\ pc = "filter"
  /\ url_requests' = Append(url_requests, entry)
  /\ UNCHANGED <<config, cache, now, op, calls, num_conn, percentile, handles, freelist, curl, msgs, num_urls, num_processed, bailout, ret, transfers, num_conn_arg, cache0>>
  /\ IF UrlSkipped(url)
       THEN /\ status' = Append(status, "skipped")
            /\ UNCHANGED <<pc, queue, results, exc, warnings>>
       ELSE IF url.len > MaxUrlLen
         THEN \* warn(...), then Struct({...}): __init__ takes no positional argument
              /\ warnings' = warnings \cup {"UrlTooLongWarning"}
              /\ exc' = "TypeError"
              /\ pc' = "raised"
              /\ status' = Append(status, "toolong")
              /\ UNCHANGED <<queue, results>>
         ELSE IF hit # NoStruct
           THEN /\ results' = Put(results, url, hit)
                /\ status' = Append(status, "hit")
                /\ UNCHANGED <<pc, queue, exc, warnings>>
           ELSE /\ queue' = Append(queue, entry @@ [n |-> n])
                /\ status' = Append(status, "queued")
                /\ UNCHANGED <<pc, results, exc, warnings>>

\* the filter loop is over: lines 407-440
FilterDone ==
  /\ pc = "filter"
  /\ UNCHANGED <<config, cache, now, op, calls, url_requests, percentile, queue, results, msgs, num_processed, bailout, ret, transfers, status, num_conn_arg, cache0>>
  /\ IF Len(queue) = 0
       THEN /\ pc' = "done"
            /\ UNCHANGED <<num_conn, num_urls, handles, freelist, curl, exc, warnings>>
       ELSE /\ num_urls' = Len(queue)
            /\ num_conn' = Min(num_conn, Len(queue))
            /\ IF num_conn' < 1
                 THEN /\ exc' = "ConnectionsNumberException"
                      /\ pc' = "raised"
                      /\ UNCHANGED <<handles, freelist, curl, warnings>>
                 ELSE /\ warnings' = IF num_conn' > ConnWarnLimit
                                       THEN warnings \cup {"ConnectionsNumberWarning"}
                                       ELSE warnings
                      /\ handles' = 1..num_conn'
                      /\ curl' = [h \in 1..num_conn' |-> NewHandle]
                      /\ freelist' = SeqTo(num_conn')
                      /\ pc' = "loop"
                      /\ exc' = None

\* as Assign, with the handle left on the free list
RECURSIVE AssignShared(_)
AssignShared(st) ==
  IF st.queue = <<>> \/ st.freelist = <<>>
    THEN st
    ELSE LET url_data == Head(st.queue)
             h == st.freelist[Len(st.freelist)]
             old == st.curl[h]
         IN AssignShared([queue |-> Tail(st.queue),
                    freelist |-> st.freelist,
                    curl |-> [st.curl EXCEPT ![h] =
                                [url |-> url_data.url,
                                 id |-> IF BuiltinId \in DOMAIN url_data THEN url_data.id ELSE None,
                                 referer |-> IF url_data.ref # None THEN url_data.ref ELSE old.referer,
                                 n |-> url_data.n,
                                 state |-> "running",
                                 resp |-> NoResp]],
                    status |-> [st.status EXCEPT ![url_data.n] = "active"],
                    transfers |-> st.transfers + 1])

\* "while queue and freelist": the state after the whole inner loop
RECURSIVE Assign(_)
Assign(st) ==
  IF st.queue = <<>> \/ st.freelist = <<>>
    THEN st
    ELSE LET url_data == Head(st.queue)
             h == st.freelist[Len(st.freelist)]
             old == st.curl[h]
         IN Assign([queue |-> Tail(st.queue),
                    freelist |-> SubSeq(st.freelist, 1, Len(st.freelist) - 1),
                    curl |-> [st.curl EXCEPT ![h] =
                                [url |-> url_data.url,
                                 id |-> IF BuiltinId \in DOMAIN url_data THEN url_data.id ELSE None,
                                 referer |-> IF url_data.ref # None THEN url_data.ref ELSE old.referer,
                                 n |-> url_data.n,
                                 state |-> "running",
                                 resp |-> NoResp]],
                    status |-> [st.status EXCEPT ![url_data.n] = "active"],
                    transfers |-> st.transfers + 1])

\* top of "while num_processed < num_urls" with bailout clear: assignment phase
LoopAssign ==
  LET st == Assign([queue |-> queue, freelist |-> freelist, curl |-> curl, status |-> status, transfers |-> transfers]) IN
  /\ pc = "loop"
  /\ num_processed < num_urls
  /\ bailout = 0
  /\ queue' = st.queue
  /\ freelist' = st.freelist
  /\ curl' = st.curl
  /\ status' = st.status
  /\ transfers' = st.transfers
  /\ pc' = "perform"
  /\ UNCHANGED <<config, cache, now, op, calls, url_requests, num_conn, percentile, results, handles, msgs, num_urls, num_processed, bailout, ret, exc, warnings, num_conn_arg, cache0>>

\* as LoopExit, with an error entry recorded for every request left in the queue
LoopExitReportsDropped ==
  /\ pc = "loop"
  /\ ~(num_processed < num_urls) \/ bailout # 0
  /\ pc' = "done"
  /\ handles' = {}
  /\ curl' = <<>>
  /\ freelist' = <<>>
  /\ msgs' = <<>>
  /\ results' = [u \in (DOMAIN results) \cup { queue[i].url : i \in 1..Len(queue) } |->
                   IF u \in DOMAIN results THEN results[u] ELSE [result |-> "error", url |-> u]]
  /\ UNCHANGED <<config, cache, now, op, calls, url_requests, num_conn, percentile, queue, num_urls, num_processed, bailout, status, ret, exc, warnings, transfers, num_conn_arg, cache0>>

\* the loop ends: mcurl.close(); return results
LoopExit ==
  /\ pc = "loop"
  /\ ~(num_processed < num_urls) \/ bailout # 0
  /\ pc' = "done"
  /\ handles' = {}
  /\ curl' = <<>>
  /\ freelist' = <<>>
  /\ msgs' = <<>>
  /\ UNCHANGED <<config, cache, now, op, calls, url_requests, num_conn, percentile, queue, results, num_urls, num_processed, bailout, status, ret, exc, warnings, transfers, num_conn_arg, cache0>>

\* the orders in which transfers of the handles in S may finish
RECURSIVE SeqsNoRep(_)
SeqsNoRep(S) == {<<>>} \cup UNION { { <<x>> \o t : t \in SeqsNoRep(S \ {x}) } : x \in S }

Range(s) == { s[i] : i \in 1..Len(s) }
Running == { h \in handles : curl[h].state = "running" }
Outcomes == { [state |-> "ok", resp |-> r] : r \in Responses } \cup { [state |-> "err", resp |-> NoResp] }

\* "while 1: mcurl.perform()": the transfers listed in done finish, in that
\* order, each with the outcome out gives it
Perform(done, out) ==
  /\ pc = "perform"
  /\ Range(done) \subseteq Running
  /\ curl' = [h \in handles |-> IF h \in Range(done)
                                  THEN [curl[h] EXCEPT !.state = out[h].state, !.resp = out[h].resp]
                                  ELSE curl[h]]
  /\ msgs' = msgs \o done
  /\ pc' = "info_read"
  /\ UNCHANGED <<config, cache, now, op, calls, url_requests, num_conn, percentile, queue, results, handles, freelist, num_urls, num_processed, bailout, ret, exc, warnings, transfers, status, num_conn_arg, cache0>>

\* the Struct of a successful transfer, lines 487-496
MultiOkStruct(c) ==
  [result |-> "ok", source |-> "web", content_type |-> c.resp.content_type, code |-> c.resp.code,
   data |-> NormalizeData(c.resp.body, c.resp.encoding), id |-> c.id, url |-> c.url, method |-> "GET"]

\* the Struct of a failed transfer, lines 518-521
MultiErrStruct(c) ==
  [result |-> "error", error |-> <<TransferError.errno, TransferError.errmsg>>, id |-> c.id, url |-> c.url]

\* as HarvestOk, with the handle put back on freelist and the result dropped
RECURSIVE HarvestOkUnrecorded(_, _)
HarvestOkUnrecorded(ok_list, st) ==
  IF ok_list = <<>>
    THEN st
    ELSE LET h == Head(ok_list)
             c == st.curl[h]
             result == MultiOkStruct(c)
         IN HarvestOkUnrecorded(Tail(ok_list),
               [cache |-> CacheResponse(st.cache, result, st.t),
                results |-> st.results,
                freelist |-> Append(st.freelist, h),
                curl |-> [st.curl EXCEPT ![h].state = "free", ![h].n = 0, ![h].resp = NoResp],
                status |-> [st.status EXCEPT ![c.n] = "ok"],
                t |-> st.t + 1])

\* "for curl in ok_list": every round ends with time.sleep(1.0)
RECURSIVE HarvestOk(_, _)
HarvestOk(ok_list, st) ==
  IF ok_list = <<>>
    THEN st
    ELSE LET h == Head(ok_list)
             c == st.curl[h]
             result == MultiOkStruct(c)
         IN HarvestOk(Tail(ok_list),
               [cache |-> CacheResponse(st.cache, result, st.t),
                results |-> Put(st.results, c.url, result @@ [file |-> CacheResponseFile(result)]),
                freelist |-> Append(st.freelist, h),
                curl |-> [st.curl EXCEPT ![h].state = "free", ![h].n = 0, ![h].resp = NoResp],
                status |-> [st.status EXCEPT ![c.n] = "ok"],
                t |-> st.t + 1])

\* as HarvestErr, with the error Struct never put into results
RECURSIVE HarvestErrLost(_, _)
HarvestErrLost(err_list, st) ==
  IF err_list = <<>>
    THEN st
    ELSE LET h == Head(err_list)
             c == st.curl[h]
         IN HarvestErrLost(Tail(err_list),
               [st EXCEPT !.freelist = Append(st.freelist, h),
                          !.curl = [st.curl EXCEPT ![h].state = "free", ![h].n = 0],
                          !.status = [st.status EXCEPT ![c.n] = "error"]])

\* as HarvestErr, with the handle of a failed transfer not put back on freelist
RECURSIVE HarvestErrKeeps(_, _)
HarvestErrKeeps(err_list, st) ==
  IF err_list = <<>>
    THEN st
    ELSE LET h == Head(err_list)
             c == st.curl[h]
         IN HarvestErrKeeps(Tail(err_list),
               [st EXCEPT !.results = Put(st.results, c.url, MultiErrStruct(c)),
                          !.curl = [st.curl EXCEPT ![h].state = "free", ![h].n = 0],
                          !.status = [st.status EXCEPT ![c.n] = "error"]])

\* "for curl, errno, errmsg in err_list"
RECURSIVE HarvestErr(_, _)
HarvestErr(err_list, st) ==
  IF err_list = <<>>
    THEN st
    ELSE LET h == Head(err_list)
             c == st.curl[h]
         IN HarvestErr(Tail(err_list),
               [st EXCEPT !.results = Put(st.results, c.url, MultiErrStruct(c)),
                          !.freelist = Append(st.freelist, h),
                          !.curl = [st.curl EXCEPT ![h].state = "free", ![h].n = 0],
                          !.status = [st.status EXCEPT ![c.n] = "error"]])

IsOk(h) == curl[h].state = "ok"
IsErr(h) == curl[h].state = "err"

\* as QuotaExceeded, stopping as soon as the quota is met
QuotaReached(processed, total, pct) == processed * 100 >= pct * total

\* float(num_processed) / num_urls * 100 > percentile; the float result
\* compares like the exact quotient for these batch sizes
QuotaExceeded(processed, total, pct) == processed * 100 > pct * total

\* as InfoRead, with the failed transfers left out of num_processed
InfoReadCountsOk ==
  LET ok_list == SelectSeq(msgs, IsOk)
      err_list == SelectSeq(msgs, IsErr)
      st0 == [cache |-> cache, results |-> results, freelist |-> freelist, curl |-> curl, status |-> status, t |-> now]
      st == HarvestErr(err_list, HarvestOk(ok_list, st0))
      processed == num_processed + Len(ok_list)
  IN
  /\ pc = "info_read"
  /\ msgs' = <<>>
  /\ UNCHANGED <<config, op, calls, url_requests, num_conn, percentile, queue, handles, num_urls, ret, warnings, transfers, num_conn_arg, cache0>>
  /\ IF ok_list # <<>> /\ GetFilenameRaises
       THEN \* __cache_response of the first successful transfer raises
            /\ exc' = "AttributeError"
            /\ pc' = "raised"
            /\ UNCHANGED <<cache, now, results, freelist, curl, status, num_processed, bailout>>
       ELSE /\ cache' = st.cache
            /\ results' = st.results
            /\ freelist' = st.freelist
            /\ curl' = st.curl
            /\ status' = st.status
            /\ now' = st.t
            /\ num_processed' = processed
            /\ bailout' = IF num_urls # 0 /\ QuotaExceeded(processed, num_urls, percentile) THEN 1 ELSE bailout
            /\ pc' = "loop"
            /\ exc' = None

\* one pass of the "while 1" around mcurl.info_read(), which reads every
\* message (num_q = 0), then mcurl.select(1.0)
InfoRead ==
  LET ok_list == SelectSeq(msgs, IsOk)
      err_list == SelectSeq(msgs, IsErr)
      st0 == [cache |-> cache, results |-> results, freelist |-> freelist, curl |-> curl, status |-> status, t |-> now]
      st == HarvestErr(err_list, HarvestOk(ok_list, st0))
      processed == num_processed + Len(ok_list) + Len(err_list)
  IN
  /\ pc = "info_read"
  /\ msgs' = <<>>
  /\ UNCHANGED <<config, op, calls, url_requests, num_conn, percentile, queue, handles, num_urls, ret, warnings, transfers, num_conn_arg, cache0>>
  /\ IF ok_list # <<>> /\ GetFilenameRaises
       THEN \* __cache_response of the first successful transfer raises
            /\ exc' = "AttributeError"
            /\ pc' = "raised"
            /\ UNCHANGED <<cache, now, results, freelist, curl, status, num_processed, bailout>>
       ELSE /\ cache' = st.cache
            /\ results' = st.results
            /\ freelist' = st.freelist
            /\ curl' = st.curl
            /\ status' = st.status
            /\ now' = st.t
            /\ num_processed' = processed
            /\ bailout' = IF num_urls # 0 /\ QuotaExceeded(processed, num_urls, percentile) THEN 1 ELSE bailout
            /\ pc' = "loop"
            /\ exc' = None

\* One call of fetch or multi_fetch on a Browser whose cache_root may hold
\* a file of an earlier run.
Next ==
  \/ \E u \in PlainUrls, m \in Methods, p \in ParamSets, r \in Responses :
       calls < 1 /\ Fetch(u, m, EntryOf(u).ref, p, "ok", r) /\ UNCHANGED <<pvars, fvars>>
  \/ \E u \in PlainUrls, m \in Methods, p \in ParamSets :
       calls < 1 /\ Fetch(u, m, EntryOf(u).ref, p, "err", NoResp) /\ UNCHANGED <<pvars, fvars>>
  \/ \E nc \in 0..MaxConn, pct \in Percentiles : calls < 1 /\ MultiFetchCall(nc, pct) /\ UNCHANGED <<pvars, fvars>>
  \/ \E e \in Entries : Len(url_requests) < MaxBatch /\ FilterEntry(e) /\ UNCHANGED <<pvars, fvars>>
  \/ FilterDone /\ UNCHANGED <<pvars, fvars>>
  \/ LoopAssign /\ UNCHANGED <<pvars, fvars>>
  \/ LoopExit /\ UNCHANGED <<pvars, fvars>>
  \/ \E done \in SeqsNoRep(Running) : \E out \in [Range(done) -> Outcomes] : Perform(done, out) /\ UNCHANGED <<pvars, fvars>>
  \/ InfoRead /\ UNCHANGED <<pvars, fvars>>
  \/ calls < 1 /\ Tick /\ UNCHANGED <<pvars, fvars>>

Spec == Init /\ [][Next]_vars

\* Several calls in a row on a Browser that starts with whatever Init
\* leaves in cache_root; between calls time passes and files get deleted.
NextCache ==
  \/ \E u \in PlainUrls, m \in Methods, p \in ParamSets, r \in Responses :
       calls < MaxCalls /\ Fetch(u, m, EntryOf(u).ref, p, "ok", r) /\ UNCHANGED <<pvars, fvars>>
  \/ \E u \in PlainUrls, m \in Methods, p \in ParamSets :
       calls < MaxCalls /\ Fetch(u, m, EntryOf(u).ref, p, "err", NoResp) /\ UNCHANGED <<pvars, fvars>>
  \/ \E nc \in 1..MaxConn : calls < MaxCalls /\ MultiFetchCall(nc, 100) /\ UNCHANGED <<pvars, fvars>>
  \/ \E u \in PlainUrls : Len(url_requests) < MaxCacheBatch /\ FilterEntry(EntryOf(u)) /\ UNCHANGED <<pvars, fvars>>
  \/ FilterDone /\ UNCHANGED <<pvars, fvars>>
  \/ LoopAssign /\ UNCHANGED <<pvars, fvars>>
  \/ LoopExit /\ UNCHANGED <<pvars, fvars>>
  \/ \E done \in SeqsNoRep(Running) : \E out \in [Range(done) -> Outcomes] : Perform(done, out) /\ UNCHANGED <<pvars, fvars>>
  \/ InfoRead /\ UNCHANGED <<pvars, fvars>>
  \/ Tick /\ UNCHANGED <<pvars, fvars>>
  \/ \E f \in DOMAIN cache : DeleteEntry(f) /\ UNCHANGED <<pvars, fvars>>

SpecCache == Init /\ [][NextCache]_vars

\* mcurl.perform() during which at least one transfer finishes
PerformProgress ==
  /\ \E done \in SeqsNoRep(Running) \ {<<>>} : \E out \in [Range(done) -> Outcomes] : Perform(done, out)
  /\ UNCHANGED <<pvars, fvars>>

LoopAssignStep == LoopAssign /\ UNCHANGED <<pvars, fvars>>
InfoReadStep == InfoRead /\ UNCHANGED <<pvars, fvars>>
LoopExitStep == LoopExit /\ UNCHANGED <<pvars, fvars>>

\* One multi_fetch call on batches with repeated URLs.
NextLive ==
  \/ \E nc \in 1..MaxConn, pct \in Percentiles : calls < 1 /\ MultiFetchCall(nc, pct) /\ UNCHANGED <<pvars, fvars>>
  \/ \E u \in PlainUrls : Len(url_requests) < MaxBatch /\ FilterEntry(EntryOf(u)) /\ UNCHANGED <<pvars, fvars>>
  \/ FilterDone /\ UNCHANGED <<pvars, fvars>>
  \/ LoopAssignStep
  \/ LoopExitStep
  \/ pc = "perform" /\ Perform(<<>>, <<>>) /\ UNCHANGED <<pvars, fvars>>
  \/ PerformProgress
  \/ InfoReadStep

\* The coordinating thread keeps running its loop, and every transfer that
\* was started finishes: the connect and transfer timeouts see to that.
SpecLive ==
  /\ Init
  /\ [][NextLive]_vars
  /\ WF_vars(LoopAssignStep)
  /\ WF_vars(InfoReadStep)
  /\ WF_vars(LoopExitStep)
  /\ SF_vars(PerformProgress)

(* ------------------------------ ListParser ----------------------------- *)
\* ct when the count extractor found nothing ("if not ct")
NoCount == -1

Max(a, b) == IF a > b THEN a ELSE b

\* xrange(a, b)
XRange(a, b) == IF b > a THEN [i \in 1..(b - a) |-> a + i - 1] ELSE <<>>

\* _construct_url(num), as a subclass overrides it
PageUrl(num) == [name |-> num, query |-> "?page", len |-> 20]

\* What a ListParser is built with.  max_pages 0 stands for None (both are
\* false in "if self.max_pages"); items_mode is the mode of the "items"
\* field of list_data_extractor; stop_none is what stop_function makes of
\* the body None of a failed fetch.
ListConfigs ==
  { c \in [kind : {"list"}, count_extractor : {None, "xpath", "regexp"}, max_pages : 0..MaxPages,
           stop_word : {None, "word"}, items_mode : {"multi", "loop"},
           stop_none : {"True", "False", "TypeError"}, page_data_extractor : {"xpath"}] :
      (c.count_extractor # None \/ c.max_pages # 0) => c.stop_none = "False" }

\* The links a listing page shows
PageLinks == {<<>>, <<Url(1)>>, <<Url(2)>>}

\* The bodies the listing may serve for page num: whether stop_function
\* holds of it, whether it contains stop_word, its links, its page count.
\* A part the parser at hand never reads is left fixed.
PageTexts(num) ==
  [stop : IF parser.count_extractor = None /\ parser.max_pages = 0 THEN BOOLEAN ELSE {FALSE},
   word : IF parser.stop_word # None THEN BOOLEAN ELSE {FALSE},
   links : PageLinks,
   count : IF num = 1 /\ parser.count_extractor # None THEN NoCount..MaxCount ELSE {NoCount}]

PageResp(text) == [body |-> [gz |-> FALSE, text |-> text], encoding |-> "", code |-> 200, content_type |-> "text/html"]

\* __get_page: data.data of the Struct fetch returned (None after a failure)
PageData(struct) == IF struct.result = "error" THEN [isnone |-> TRUE]
                                               ELSE [isnone |-> FALSE, text |-> struct.data.text]

\* __extract_page_data(data).items: on None a mode "multi" field is the
\* empty list (data_xml is None), any other mode calls None.xpath
ExtractItems(d) ==
  IF d.isnone
    THEN IF parser.items_mode = "multi" THEN [exc |-> None, items |-> <<>>]
                                        ELSE [exc |-> "AttributeError", items |-> <<>>]
    ELSE [exc |-> None, items |-> d.text.links]

\* __get_page_count(data): on None an xpath field calls None.xpath, a regexp
\* field etree.tostring(None)
ExtractCount(d) ==
  IF d.isnone
    THEN [exc |-> IF parser.count_extractor = "xpath" THEN "AttributeError" ELSE "TypeError", count |-> NoCount]
    ELSE [exc |-> None, count |-> d.text.count]

\* self.stop_function(data)
StopFunction(d) == IF d.isnone THEN parser.stop_none ELSE IF d.text.stop THEN "True" ELSE "False"

\* as PagesOfCount, with xrange(2, count): every page below the count
PagesOfCountInclusive(ct) ==
  IF ct = NoCount
    THEN <<>>
    ELSE IF parser.max_pages # 0
      THEN XRange(2, Max(parser.max_pages, ct) - 4)
      ELSE XRange(2, ct)

\* lines 97-105: the pages after page 1 when a count extractor is set
PagesOfCount(ct) ==
  IF ct = NoCount
    THEN <<>>
    ELSE IF parser.max_pages # 0
      THEN XRange(2, Max(parser.max_pages, ct) - 4)
      ELSE XRange(2, ct - 1)

\* as AfterFirstPage, with stop_function first asked about page 2
AfterFirstPageUnchecked(d) ==
  IF parser.count_extractor # None \/ parser.max_pages # 0
    THEN IF parser.count_extractor # None
      THEN LET ct == ExtractCount(d) IN
           IF ct.exc # None
             THEN [exc |-> ct.exc, pages |-> <<>>, scan |-> FALSE]
             ELSE [exc |-> None, pages |-> PagesOfCount(ct.count), scan |-> FALSE]
      ELSE [exc |-> None, pages |-> XRange(2, parser.max_pages + 1), scan |-> FALSE]
    ELSE [exc |-> None, pages |-> <<>>, scan |-> TRUE]

\* lines 90-122: what follows page 1
AfterFirstPage(d) ==
  IF parser.count_extractor # None \/ parser.max_pages # 0
    THEN IF parser.count_extractor # None
      THEN LET ct == ExtractCount(d) IN
           IF ct.exc # None
             THEN [exc |-> ct.exc, pages |-> <<>>, scan |-> FALSE]
             ELSE [exc |-> None, pages |-> PagesOfCount(ct.count), scan |-> FALSE]
      ELSE [exc |-> None, pages |-> XRange(2, parser.max_pages + 1), scan |-> FALSE]
    ELSE LET s == StopFunction(d) IN
         IF s = "TypeError"
           THEN [exc |-> "TypeError", pages |-> <<>>, scan |-> FALSE]
           ELSE [exc |-> None, pages |-> <<>>, scan |-> (s = "False")]

\* "return results": a SearchParser goes on with the links
ListEnd == IF parser.kind = "search" THEN "links" ELSE "done"

\* self.__get_page(num)
GetPage(num, outcome, resp) == Fetch(PageUrl(num), "GET", None, "", outcome, resp)

\* parser.fetch() raises exception e
ParserRaises(e) ==
  /\ ppc' = "raised"
  /\ pexc' = e

\* ListParser.fetch from its first line to the choice of the pages to come
ListFirstPage(outcome, resp) ==
  /\ ppc = "idle"
  /\ parser.kind # "none"
  /\ GetPage(1, outcome, resp)
  /\ UNCHANGED <<parser, lresults, todo, fvars>>
  /\ IF pc' = "raised"
       THEN /\ ParserRaises(exc')
            /\ fetched' = Append(fetched, [num |-> 1, data |-> [isnone |-> TRUE], raised |-> TRUE])
            /\ UNCHANGED <<pages, page_num, page_data, list_results>>
       ELSE LET d == PageData(ret')
                it == ExtractItems(d)
                nx == AfterFirstPage(d)
            IN /\ page_data' = d
               /\ fetched' = Append(fetched, [num |-> 1, data |-> d, raised |-> FALSE])
               /\ IF it.exc # None
                    THEN /\ ParserRaises(it.exc)
                         /\ UNCHANGED <<pages, page_num, list_results>>
                    ELSE /\ list_results' = list_results \o it.items
                         /\ IF nx.exc # None
                              THEN /\ ParserRaises(nx.exc)
                                   /\ UNCHANGED <<pages, page_num>>
                              ELSE /\ pexc' = None
                                   /\ pages' = nx.pages
                                   /\ page_num' = IF nx.scan THEN 2 ELSE page_num
                                   /\ ppc' = IF nx.scan THEN "scan"
                                             ELSE IF nx.pages # <<>> THEN "pages" ELSE ListEnd

\* as StopWordFound, with the stop word never looked for
StopWordIgnored(d) == "False"

\* "self.stop_word and self.stop_word in data"
StopWordFound(d) ==
  IF parser.stop_word = None THEN "False"
  ELSE IF d.isnone THEN "TypeError"
  ELSE IF d.text.word THEN "True" ELSE "False"

\* one round of "for page_num in pages", lines 110-117
ListNextPage(outcome, resp) ==
  LET num == Head(pages) IN
  /\ ppc = "pages"
  /\ GetPage(num, outcome, resp)
  /\ UNCHANGED <<parser, lresults, todo, fvars>>
  /\ page_num' = num
  /\ IF pc' = "raised"
       THEN /\ ParserRaises(exc')
            /\ fetched' = Append(fetched, [num |-> num, data |-> [isnone |-> TRUE], raised |-> TRUE])
            /\ UNCHANGED <<pages, page_data, list_results>>
       ELSE LET d == PageData(ret')
                it == ExtractItems(d)
                w == StopWordFound(d)
            IN /\ page_data' = d
               /\ fetched' = Append(fetched, [num |-> num, data |-> d, raised |-> FALSE])
               /\ IF it.exc # None
                    THEN /\ ParserRaises(it.exc)
                         /\ UNCHANGED <<pages, list_results>>
                    ELSE /\ list_results' = list_results \o it.items
                         /\ IF w = "TypeError"
                              THEN /\ ParserRaises("TypeError")
                                   /\ UNCHANGED pages
                              ELSE /\ pexc' = None
                                   /\ pages' = IF w = "True" THEN <<>> ELSE Tail(pages)
                                   /\ ppc' = IF pages' = <<>> THEN ListEnd ELSE "pages"

\* one round of "while True", lines 125-134
ListScanPage(outcome, resp) ==
  /\ ppc = "scan"
  /\ page_num <= MaxPage
  /\ GetPage(page_num, outcome, resp)
  /\ UNCHANGED <<parser, lresults, todo, pages, fvars>>
  /\ IF pc' = "raised"
       THEN /\ ParserRaises(exc')
            /\ fetched' = Append(fetched, [num |-> page_num, data |-> [isnone |-> TRUE], raised |-> TRUE])
            /\ UNCHANGED <<page_num, page_data, list_results>>
       ELSE LET d == PageData(ret')
                it == ExtractItems(d)
                s == StopFunction(d)
            IN /\ page_data' = d
               /\ fetched' = Append(fetched, [num |-> page_num, data |-> d, raised |-> FALSE])
               /\ IF it.exc # None
                    THEN /\ ParserRaises(it.exc)
                         /\ UNCHANGED <<page_num, list_results>>
                    ELSE /\ list_results' = list_results \o it.items
                         /\ IF s = "TypeError"
                              THEN /\ ParserRaises("TypeError")
                                   /\ UNCHANGED page_num
                              ELSE /\ pexc' = None
                                   /\ page_num' = IF s = "True" THEN page_num ELSE page_num + 1
                                   /\ ppc' = IF s = "True" THEN ListEnd ELSE "scan"

\* The Browser a parser is handed: any that could be constructed, its
\* cache_root empty or holding page 1 from an earlier crawl.
CachedPage == [stop |-> FALSE, word |-> FALSE, links |-> <<Url(2)>>, count |-> NoCount]

InitBrowser ==
  /\ \E c \in Configs :
       /\ ~InitRaises(c.method, c.root)
       /\ cache_method = c.method
       /\ cache_root = c.root
  /\ browser = "ok"
  /\ cache \in IF cache_root # None
                THEN {EmptyMap, CacheResponse(EmptyMap, FetchOkStruct(PageUrl(1), "GET", PageResp(CachedPage)), 0)}
                ELSE {EmptyMap}
  /\ now = 0
  /\ pc = "idle"
  /\ op = "none"
  /\ calls = 0
  /\ url_requests = <<>>
  /\ num_conn = 0
  /\ percentile = 100
  /\ queue = <<>>
  /\ results = EmptyMap
  /\ handles = {}
  /\ freelist = <<>>
  /\ curl = <<>>
  /\ msgs = <<>>
  /\ num_urls = 0
  /\ num_processed = 0
  /\ bailout = 0
  /\ ret = NoStruct
  /\ exc = None
  /\ warnings = {}
  /\ transfers = 0
  /\ status = <<>>
  /\ num_conn_arg = 0
  /\ cache0 = cache

InitList ==
  /\ InitBrowser
  /\ parser \in ListConfigs
  /\ ParserIdle
  /\ FunctionIdle

\* One ListParser.fetch() on a listing that answers every page request
\* with some body or fails it.
NextList ==
  \/ \E t \in PageTexts(1) : ListFirstPage("ok", PageResp(t))
  \/ ListFirstPage("err", NoResp)
  \/ \E t \in PageTexts(2) : ListNextPage("ok", PageResp(t))
  \/ ListNextPage("err", NoResp)
  \/ \E t \in PageTexts(2) : ListScanPage("ok", PageResp(t))
  \/ ListScanPage("err", NoResp)

SpecList == InitList /\ [][NextList]_vars

(* ----------------------------- SearchParser ---------------------------- *)
\* What a SearchParser is built with: a listing of max_pages pages;
\* page_data_extractor is an xpath field whose expression lxml accepts or
\* rejects with XPathEvalError.
SearchConfigs ==
  [kind : {"search"}, count_extractor : {None}, max_pages : 1..MaxSearchPages,
   stop_word : {None}, items_mode : {"multi", "loop"},
   stop_none : {"False"}, page_data_extractor : {"xpath", "badxpath"}]

\* {"url": link}: entry.get("id", None) and url_data.get("ref", None) are None
LinkEntry(link) == [url |-> link, ref |-> None, id |-> None]

\* entries = self.browser.multi_fetch(links, num_conn=5) is entered
SearchBulk ==
  /\ ppc = "links"
  /\ MultiFetchCall(SearchNumConn, 100)
  /\ ppc' = "bulk"
  /\ UNCHANGED <<parser, pages, page_num, page_data, list_results, lresults, todo, fetched, pexc, fvars>>

\* multi_fetch reads the next link
SearchFilter ==
  /\ ppc = "bulk"
  /\ Len(url_requests) < Len(list_results)
  /\ FilterEntry(LinkEntry(list_results[Len(url_requests) + 1]))
  /\ UNCHANGED <<pvars, fvars>>

\* multi_fetch has read every link
SearchFilterDone ==
  /\ ppc = "bulk"
  /\ Len(url_requests) = Len(list_results)
  /\ FilterDone
  /\ UNCHANGED <<pvars, fvars>>

\* multi_fetch is over: with its return value the loop over entries.items()
\* starts, its exception leaves SearchParser.fetch
SearchEntries ==
  /\ ppc = "bulk"
  /\ op = "multi_fetch"
  /\ pc \in {"done", "raised"}
  /\ IF pc = "raised"
       THEN /\ ParserRaises(exc)
            /\ UNCHANGED todo
       ELSE /\ todo' = DOMAIN results
            /\ ppc' = IF todo' = {} THEN "done" ELSE "entries"
            /\ pexc' = None
  /\ UNCHANGED <<parser, pages, page_num, page_data, list_results, lresults, fetched>>
  /\ UNCHANGED <<bvars, fvars>>

\* one round of "for url, entry in entries.items()", in dict order
SearchExtract(url) ==
  LET entry == results[url] IN
  /\ ppc = "entries"
  /\ url \in todo
  /\ IF "data" \notin DOMAIN entry
       THEN \* entry.data of an error Struct: AttributeError, not caught
            /\ ParserRaises("AttributeError")
            /\ UNCHANGED <<todo, lresults>>
       ELSE /\ todo' = todo \ {url}
            /\ ppc' = IF todo' = {} THEN "done" ELSE "entries"
            /\ pexc' = None
            /\ lresults' = IF parser.page_data_extractor = "badxpath"
                             THEN lresults   \* XPathEvalError: logged
                             ELSE Append(lresults, [link |-> url, text |-> entry.data.text])
  /\ UNCHANGED <<parser, pages, page_num, page_data, list_results, fetched>>
  /\ UNCHANGED <<bvars, fvars>>

InitSearch ==
  /\ InitBrowser
  /\ parser \in SearchConfigs
  /\ ParserIdle
  /\ FunctionIdle

\* One SearchParser.fetch(): the listing, the bulk fetch of its links, the
\* extraction.
NextSearch ==
  \/ \E t \in PageTexts(1) : ListFirstPage("ok", PageResp(t))
  \/ ListFirstPage("err", NoResp)
  \/ \E t \in PageTexts(2) : ListNextPage("ok", PageResp(t))
  \/ ListNextPage("err", NoResp)
  \/ SearchBulk
  \/ SearchFilter
  \/ SearchFilterDone
  \/ ppc = "bulk" /\ LoopAssign /\ UNCHANGED <<pvars, fvars>>
  \/ \E done \in SeqsNoRep(Running) : \E out \in [Range(done) -> Outcomes] :
       ppc = "bulk" /\ Perform(done, out) /\ UNCHANGED <<pvars, fvars>>
  \/ ppc = "bulk" /\ InfoRead /\ UNCHANGED <<pvars, fvars>>
  \/ ppc = "bulk" /\ LoopExit /\ UNCHANGED <<pvars, fvars>>
  \/ SearchEntries
  \/ \E url \in todo : SearchExtract(url)

SpecSearch == InitSearch /\ [][NextSearch]_vars

(* --------------------------- __normalize_data -------------------------- *)
\* Header lines as curl hands them over, each a string written as the
\* sequence of its pieces; "\r" ends a line of the wire format.
HeaderLines ==
  { <<"HTTP/1.1 200 OK", "\r">>,
    <<"Content-Encoding", ":", " ", "gzip", "\r">>,
    <<"Content-Encoding", ":", "gzip">>,
    <<"Content-Encoding", ":", " ", "deflate", "\r">>,
    <<"Content-Encoding", ":", " ", "gzip", ":", "x", "\r">>,
    <<"Content-Encoding", " ", ":", " ", "gzip", "\r">>,
    <<"content-encoding", ":", " ", "gzip", "\r">>,
    <<"Content-Type", ":", " ", "gzip", "\r">>,
    <<"Content-Encoding", ":", "\r">>,
    <<"\r">> }

\* cheaders.split("\n")
HeaderBlocks == UNION { [1..n -> HeaderLines] : n \in 0..MaxHeaderLines }

\* response bodies: a gzip stream of a text, or the text as it is
Bodies == { [gz |-> TRUE, text |-> "page"], [gz |-> FALSE, text |-> "page"], [gz |-> FALSE, text |-> ""] }

\* c in entry
In(c, entry) == \E i \in 1..Len(entry) : entry[i] = c

\* entry.split(":", 1)
FirstColon(entry) == CHOOSE i \in 1..Len(entry) : entry[i] = ":" /\ \A j \in 1..(i - 1) : entry[j] # ":"
SplitKey(entry) == SubSeq(entry, 1, FirstColon(entry) - 1)
SplitValue(entry) == SubSeq(entry, FirstColon(entry) + 1, Len(entry))

\* value.strip()
Whitespace == {" ", "\r", "\t", "\n"}
RECURSIVE LStrip(_)
LStrip(str) == IF str # <<>> /\ Head(str) \in Whitespace THEN LStrip(Tail(str)) ELSE str
RECURSIVE RStrip(_)
RStrip(str) ==
  IF str # <<>> /\ str[Len(str)] \in Whitespace THEN RStrip(SubSeq(str, 1, Len(str) - 1)) ELSE str
Strip(str) == RStrip(LStrip(str))

\* the headers dict after the loop over the lines: a later line replaces
\* an earlier one with the same key
RECURSIVE Headers(_)
Headers(lines) ==
  IF lines = <<>> THEN [k \in {} |-> <<>>]
  ELSE LET before == Headers(SubSeq(lines, 1, Len(lines) - 1))
           entry == lines[Len(lines)]
       IN IF In(":", entry)
            THEN [k \in (DOMAIN before) \cup {SplitKey(entry)} |->
                    IF k = SplitKey(entry) THEN Strip(SplitValue(entry)) ELSE before[k]]
            ELSE before

\* headers.get("Content-Encoding", ""), as the string the pieces spell
ContentEncoding(lines) ==
  LET headers == Headers(lines)
      value == IF <<"Content-Encoding">> \in DOMAIN headers THEN headers[<<"Content-Encoding">>] ELSE <<>>
  IN IF value = <<>> THEN ""
     ELSE IF Len(value) = 1 THEN value[1]
     ELSE "other"

\* self.__normalize_data(data, cheaders)
Normalize ==
  /\ fpc = "normalize"
  /\ normalized' = NormalizeData(strbuff, ContentEncoding(cheaders))
  /\ fpc' = "normalized"
  /\ UNCHANGED <<bvars, pvars, strbuff, cheaders, element, extractor, extracted>>

InitNormalize ==
  /\ InitBrowser
  /\ parser = NoParser
  /\ ParserIdle
  /\ fpc = "normalize"
  /\ strbuff \in Bodies
  /\ cheaders \in HeaderBlocks
  /\ normalized = None
  /\ ExtractIdle

NextNormalize == Normalize

SpecNormalize == InitNormalize /\ [][NextNormalize]_vars

(* -------------------------------- extract ------------------------------ *)
\* What data_xml.xpath(...) finds in a document: text results and elements
\* without children ("if ... and element" is false for such an element).
XPathResults == { [node |-> FALSE, text |-> <<"a">>], [node |-> TRUE, text |-> <<"b">>] }
MatchLists == UNION { [1..n -> XPathResults] : n \in 0..MaxMatches }

\* What re.search(info["regexp"], data_str) finds: nothing, or a match whose
\* group "content" holds a text.
NoMatch == [matched |-> FALSE, content |-> <<>>]
RegexpResults == { NoMatch, [matched |-> TRUE, content |-> <<"c">>], [matched |-> TRUE, content |-> <<>>] }

\* The data argument: a string that fromstring parses or rejects, an lxml
\* element, or None; with what the queries and patterns of the schema find
\* in it.
Elements ==
  [kind : {"str"}, parses : BOOLEAN, matches : MatchLists, groups : RegexpResults]
    \cup [kind : {"tree"}, parses : {TRUE}, matches : MatchLists, groups : RegexpResults]
    \cup [kind : {"None"}, parses : {FALSE}, matches : {<<>>}, groups : {NoMatch}]

\* One entry of extractor.fields: "xpath" or "regexp" key, "mode" key (or
\* none), an expression lxml evaluates or rejects, a "parser" key or none.
FieldInfos ==
  [type : {"xpath"}, mode : {"absent", "single", "multi"}, valid : BOOLEAN, parser : BOOLEAN]
    \cup [type : {"regexp"}, mode : {"absent"}, valid : {TRUE}, parser : BOOLEAN]
FieldNames == { <<"f", "g", "h", "i">>[n] : n \in 1..MaxFields }
Extractors == UNION { [S -> FieldInfos] : S \in SUBSET FieldNames }

\* extractor.fields.items(): the fields in the order the dict yields them
Items(fields) ==
  { order \in [1..Cardinality(DOMAIN fields) -> DOMAIN fields] :
      \A a, b \in DOMAIN order : a # b => order[a] # order[b] }

\* some field of the schema has the key t
HasKey(fields, t) == \E f \in DOMAIN fields : fields[f].type = t

\* data_xml after the first block: never assigned for a string when no
\* field has "xpath", None when fromstring raised
Unbound == "unbound"
DataXml(el, fields) ==
  IF el.kind = "str"
    THEN IF HasKey(fields, "xpath") THEN (IF el.parses THEN "doc" ELSE None) ELSE Unbound
    ELSE IF el.kind = "tree" THEN "doc" ELSE None

\* data_str = etree.tostring(element) raises TypeError for None
ToStringRaises(el, fields) == el.kind = "None" /\ HasKey(fields, "regexp")

\* info["parser"], a function of the caller
Parser(text) == <<"parsed">> \o text

\* __get_str
GetStr(felement, info) == IF info.parser /\ felement # <<>> THEN Parser(felement) ELSE felement

\* lxml.html.tostring(entry)
HtmlToString(text) == <<"<e>">> \o text \o <<"</e>">>

\* "".join(data_list)
RECURSIVE Join(_)
Join(matches) ==
  IF matches = <<>> THEN <<>>
  ELSE (IF Head(matches).node THEN HtmlToString(Head(matches).text) ELSE Head(matches).text)
         \o Join(Tail(matches))

\* values of result[field]
Null == [isnone |-> TRUE]
Text(t) == [isnone |-> FALSE, text |-> t]
List(l) == [isnone |-> FALSE, list |-> l]
Returns(v) == [raised |-> None, value |-> v]
Raises(e) == [raised |-> e, value |-> Null]

\* the "xpath" branch; data_xml.xpath raises AttributeError on None and
\* XPathEvalError on an expression lxml rejects, and "except IndexError"
\* catches neither
XPathField(el, data_xml, info) ==
  IF info.mode \in {"absent", "single"}
    THEN IF data_xml = None THEN Raises("AttributeError")
         ELSE IF ~info.valid THEN Raises("XPathEvalError")
         ELSE Returns(Text(GetStr(Join(el.matches), info)))
    ELSE IF data_xml = None THEN Returns(List(<<>>))
         ELSE IF ~info.valid THEN Raises("XPathEvalError")
         ELSE Returns(List([n \in 1..Len(el.matches) |->
                              IF el.matches[n].node THEN el.matches[n]
                              ELSE [node |-> FALSE, text |-> GetStr(el.matches[n].text, info)]]))

\* the "regexp" branch; groups is None when nothing matched and the
\* AttributeError of None.group is caught
RegexpField(el, info) ==
  IF ~el.groups.matched THEN Returns(Null)
  ELSE Returns(Text(IF info.parser THEN Parser(el.groups.content) ELSE el.groups.content))

\* the loop that fills result, left by the first exception
RECURSIVE ExtractFields(_, _, _, _)
ExtractFields(el, fields, order, result) ==
  IF order = <<>> THEN [raised |-> None, fields |-> result]
  ELSE LET info == fields[Head(order)]
           r == IF info.type = "xpath" THEN XPathField(el, DataXml(el, fields), info)
                ELSE RegexpField(el, info)
       IN IF r.raised # None THEN [raised |-> r.raised, fields |-> result]
          ELSE ExtractFields(el, fields, Tail(order), Put(result, Head(order), r.value))

\* __extract_data; result["lxml_handle"] = data_xml raises UnboundLocalError
\* when data_xml was never assigned
NoRecord(e) == [raised |-> e, fields |-> [f \in {} |-> Null], lxml_handle |-> "absent"]
ExtractData(el, fields, order) ==
  IF ToStringRaises(el, fields) THEN NoRecord("TypeError")
  ELSE LET r == ExtractFields(el, fields, order, [f \in {} |-> Null])
       IN IF r.raised # None THEN NoRecord(r.raised)
          ELSE IF DataXml(el, fields) = Unbound THEN NoRecord("UnboundLocalError")
          ELSE [raised |-> None, fields |-> r.fields, lxml_handle |-> DataXml(el, fields)]

\* self.extract(data, extractor)
Extract ==
  /\ fpc = "extract"
  /\ \E order \in Items(extractor) : extracted' = ExtractData(element, extractor, order)
  /\ fpc' = "extracted"
  /\ UNCHANGED <<bvars, pvars, strbuff, cheaders, normalized, element, extractor>>

InitExtract ==
  /\ InitBrowser
  /\ parser = NoParser
  /\ ParserIdle
  /\ fpc = "extract"
  /\ NormalizeIdle
  /\ element \in Elements
  /\ extractor \in Extractors
  /\ extracted = None

NextExtract == Extract

SpecExtract == InitExtract /\ [][NextExtract]_vars

(* ------------------------------ properties ----------------------------- *)
InLoop == op = "multi_fetch" /\ pc \in {"loop", "perform", "info_read"}
Active == { h \in handles : curl[h].state # "free" }
InFlight == { n \in 1..Len(status) : status[n] = "active" }
Dropped(n) == status[n] \in {"queued", "active"}
Reqs == 1..Len(url_requests)
EarlyStop == op = "multi_fetch" /\ pc = "done" /\ bailout = 1 /\ num_processed < num_urls
DistinctValid ==
  \A i \in Reqs : /\ ~UrlSkipped(url_requests[i].url)
                  /\ \A j \in Reqs : i # j => url_requests[i].url # url_requests[j].url
FullUrl(u, p, m) == IF p # "" THEN SetRequestParams(p, u, m) ELSE u
Last(s) == s[Len(s)]

\* C1: while multi_fetch runs, the transfers started and not yet harvested
\* number at most min(num_conn, pending requests), every such transfer has
\* a handle of its own, and no two in-flight requests share a handle.
C1_BoundedConcurrency ==
  InLoop =>
    /\ Cardinality(Active) <= Min(num_conn_arg, num_urls)
    /\ Cardinality(InFlight) = Cardinality(Active)
    /\ \A h \in Active : curl[h].n \in InFlight
    /\ \A h1 \in Active, h2 \in Active : h1 # h2 => curl[h1].n # curl[h2].n

\* two transfers in flight, one of them on a handle that served before
C1_Witness ==
  /\ op = "multi_fetch" /\ pc = "perform"
  /\ Cardinality(Active) = 2
  /\ num_processed >= 1

\* C2: a batch of N requests with distinct acceptable URLs and percentile 100
\* ends with a returned mapping of exactly N entries.
C2_AllEntries ==
  (/\ op = "multi_fetch" /\ pc \in {"done", "raised"}
   /\ percentile = 100 /\ num_conn_arg >= 1 /\ DistinctValid)
  => (pc = "done" /\ Cardinality(DOMAIN results) = Len(url_requests))

\* C3: a harvest round never raises because of a failed transfer; it records
\* every failed transfer as an error entry under its URL, frees its handle
\* and lets the batch go on with the queue untouched.
C3_FailureIsolated ==
  [][(pc = "info_read" /\ pc' # "info_read") =>
       /\ pc' = "raised" => \E h \in handles : curl[h].state = "ok"
       /\ pc' # "raised" =>
            \A h \in handles : curl[h].state = "err" =>
              /\ curl[h].url \in DOMAIN results'
              /\ results'[curl[h].url].result = "error"
              /\ status'[curl[h].n] = "error"
              /\ \E i \in 1..Len(freelist') : freelist'[i] = h
              /\ pc' = "loop"
              /\ queue' = queue
              /\ exc' = None]_vars

\* a batch that returned with one request failed and a later one fetched
C3_Witness ==
  /\ op = "multi_fetch" /\ pc = "done"
  /\ \E n \in Reqs, m \in Reqs :
       /\ n < m
       /\ status[n] = "error" /\ status[m] = "ok"
       /\ url_requests[n].url # url_requests[m].url
       /\ results[url_requests[n].url].result = "error"
       /\ results[url_requests[m].url].result = "ok"

\* every key of the mapping comes from a cache hit, an over-long URL or a
\* harvested transfer
KeysAccounted ==
  \A u \in DOMAIN results :
    \E m \in Reqs : url_requests[m].url = u /\ status[m] \in {"hit", "toolong", "ok", "error"}

\* C4 as claimed: after an early stop no request that was still queued or
\* active has an entry under its URL, and every key is accounted for.
C4_DroppedAbsent ==
  EarlyStop =>
    /\ \A n \in Reqs : Dropped(n) => url_requests[n].url \notin DOMAIN results
    /\ KeysAccounted

\* C4 as amended: after an early stop a request that was still queued or
\* active has an entry under its URL only when another request of the batch
\* with the same URL was a cache hit or was harvested, and every key is
\* accounted for.
C4_DroppedAbsentUnlessTwin ==
  EarlyStop =>
    /\ \A n \in Reqs :
         (Dropped(n) /\ url_requests[n].url \in DOMAIN results) =>
           \E m \in Reqs : /\ m # n
                           /\ url_requests[m].url = url_requests[n].url
                           /\ status[m] \in {"hit", "ok", "error"}
    /\ KeysAccounted

\* an early stop that leaves a queued and an active request without entry
C4_Witness ==
  /\ EarlyStop
  /\ \E n \in Reqs, m \in Reqs :
       /\ status[n] = "queued" /\ status[m] = "active"
       /\ url_requests[n].url \notin DOMAIN results
       /\ url_requests[m].url \notin DOMAIN results
  /\ DOMAIN results # {}

C6_AtMostPercentile ==
  (op = "multi_fetch" /\ percentile < 100 /\ num_urls > 0) =>
    num_processed * 100 <= percentile * num_urls

\* C7: an over-long URL gets a warning and an error entry in the returned
\* mapping, and the batch is processed to its return.
C7_TooLongEntry ==
  (op = "multi_fetch" /\ pc \in {"done", "raised"}) =>
    \A n \in Reqs : status[n] = "toolong" =>
      /\ "UrlTooLongWarning" \in warnings
      /\ pc = "done"
      /\ url_requests[n].url \in DOMAIN results
      /\ results[url_requests[n].url].result = "error"

\* the cache file of (url, method) exists and the policy serves it
EntryServed(f) ==
  /\ f \in DOMAIN cache
  /\ \/ cache_method = "forever"
     \/ cache_method = "expire" /\ now - cache[f].mtime < CacheExpiration

\* the Struct ret is the cache entry under f
FromCache(r, f) ==
  /\ r.result = "ok" /\ r.source = "cache"
  /\ r.data = cache[f].data
  /\ r.code = cache[f].meta[2]
  /\ r.content_type = cache[f].meta[3]
  /\ r.url = cache[f].meta[4]

\* C8: fetch looks the request up under (url with parameters, method) before
\* any transfer: on a hit it returns the entry with no transfer, on a miss
\* it makes exactly one transfer.
C8_CacheFirst ==
  [][\A u \in PlainUrls, m \in Methods, p \in ParamSets, o \in Outcomes :
       Fetch(u, m, EntryOf(u).ref, p, o.state, o.resp) =>
         LET f == GetFilename(FullUrl(u, p, m), m) IN
         IF EntryServed(f)
           THEN /\ pc' = "done"
                /\ FromCache(ret', f)
                /\ ret'.url = FullUrl(u, p, m)
                /\ transfers' = 0
                /\ cache' = cache
           ELSE transfers' = 1]_vars

\* a fetch with parameters answered from the cache
C8_Witness ==
  /\ op = "fetch" /\ pc = "done"
  /\ ret.source = "cache"
  /\ ret.url.query = "?k=v"
  /\ transfers = 0

\* C9: under 'forever' a call never rewrites a file it found, and a request
\* whose file exists is served from it, by fetch and by multi_fetch, with
\* the stored body, code, content type and URL, whatever the file's age.
C9_ForeverStable ==
  [][cache_method = "forever" =>
       /\ \A f \in DOMAIN cache0' : f \in DOMAIN cache' => cache'[f] = cache0'[f]
       /\ \A u \in PlainUrls, m \in Methods, p \in ParamSets, o \in Outcomes :
            LET f == GetFilename(FullUrl(u, p, m), m) IN
            (Fetch(u, m, EntryOf(u).ref, p, o.state, o.resp) /\ f \in DOMAIN cache) =>
              /\ FromCache(ret', f)
              /\ transfers' = 0
              /\ cache' = cache
       /\ \A e \in Entries :
            LET f == GetFilename(e.url, "GET") IN
            (FilterEntry(e) /\ f \in DOMAIN cache) =>
              /\ e.url \in DOMAIN results'
              /\ FromCache(results'[e.url], f)
              /\ Last(status') = "hit"
              /\ queue' = queue]_vars

\* the second call is answered from a file the first call wrote, at an age
\* at which 'expire' would refetch
C9_Witness ==
  /\ cache_method = "forever" /\ calls = 2
  /\ op = "fetch" /\ pc = "done"
  /\ ret.source = "cache"
  /\ ret.url = Url(2)
  /\ ret.file \in DOMAIN cache
  /\ now - cache[ret.file].mtime >= CacheExpiration

\* C10: under 'expire' a request whose file is younger than the window is
\* served from it without a transfer; one whose file is as old as the window
\* or older is a miss: fetch transfers once, multi_fetch queues it, and a
\* successful transfer rewrites body and sidecar with the age reset.
C10_ExpireWindow ==
  [][cache_method = "expire" =>
       /\ \A u \in PlainUrls, m \in Methods, p \in ParamSets, o \in Outcomes :
            LET url == FullUrl(u, p, m)
                f == GetFilename(url, m)
            IN
            Fetch(u, m, EntryOf(u).ref, p, o.state, o.resp) =>
              IF f \in DOMAIN cache /\ now - cache[f].mtime < CacheExpiration
                THEN FromCache(ret', f) /\ transfers' = 0 /\ cache' = cache
                ELSE /\ transfers' = 1
                     /\ IF o.state = "ok"
                          THEN /\ ret'.source = "web" /\ ret'.result = "ok"
                               /\ f \in DOMAIN cache'
                               /\ cache'[f].data = NormalizeData(o.resp.body, o.resp.encoding)
                               /\ cache'[f].meta = <<"{", o.resp.code, o.resp.content_type, url, "}">>
                               /\ cache'[f].mtime = now
                          ELSE cache' = cache
       /\ \A e \in Entries :
            LET f == GetFilename(e.url, "GET") IN
            (FilterEntry(e) /\ ~UrlSkipped(e.url) /\ e.url.len <= MaxUrlLen) =>
              IF f \in DOMAIN cache /\ now - cache[f].mtime < CacheExpiration
                THEN /\ e.url \in DOMAIN results'
                     /\ FromCache(results'[e.url], f)
                     /\ Last(status') = "hit"
                     /\ queue' = queue
                ELSE /\ Last(status') = "queued"
                     /\ Len(queue') = Len(queue) + 1
                     /\ Last(queue').url = e.url
       /\ (pc = "info_read" /\ pc' = "loop") =>
            \A h \in handles : curl[h].state = "ok" =>
              LET f == GetFilename(curl[h].url, "GET") IN
              /\ f \in DOMAIN cache'
              /\ cache'[f].mtime >= now
              /\ \E k \in handles :
                   /\ curl[k].state = "ok" /\ curl[k].url = curl[h].url
                   /\ cache'[f].data = NormalizeData(curl[k].resp.body, curl[k].resp.encoding)
                   /\ cache'[f].meta = <<"{", curl[k].resp.code, curl[k].resp.content_type, curl[k].url, "}">>]_vars

\* a fetch that found a file as old as the window and rewrote it
C10_Witness ==
  /\ cache_method = "expire"
  /\ op = "fetch" /\ pc = "done"
  /\ ret.result = "ok" /\ ret.source = "web"
  /\ ret.file \in DOMAIN cache0
  /\ now - cache0[ret.file].mtime >= CacheExpiration
  /\ ret.file \in DOMAIN cache
  /\ cache[ret.file].mtime = now

\* C11 as claimed: under 'never', with or without a cache_root, a call whose
\* transfers succeed ends without an exception, a fetch returns an ok result
\* with source web, and the cache files are as the call found them.
C11_NeverNoStore ==
  (cache_method = "never" /\ browser = "ok" /\ op # "none" /\ pc \in {"done", "raised"}) =>
    /\ exc # "AttributeError"
    /\ (op = "fetch" /\ pc = "done" /\ ret.result = "ok") => ret.source = "web"
    /\ cache = cache0

\* C12: a fetch whose transfer fails returns result 'error' with no body
\* and leaves every cache file as it was: none created, none rewritten,
\* none removed.
C12_FailureLeavesCache ==
  [][\A u \in PlainUrls, m \in Methods, p \in ParamSets :
       (Fetch(u, m, EntryOf(u).ref, p, "err", NoResp) /\ transfers' = 1) =>
         /\ pc' = "done"
         /\ exc' = None
         /\ ret'.result = "error"
         /\ ret'.data = None
         /\ ret'.url = FullUrl(u, p, m)
         /\ cache' = cache]_vars

\* a failed fetch of a request whose cache file is stale: the file is still
\* there, unchanged
C12_Witness ==
  /\ cache_method = "expire"
  /\ op = "fetch" /\ pc = "done"
  /\ ret.result = "error"
  /\ GetFilename(ret.url, ret.method) \in DOMAIN cache
  /\ now - cache[GetFilename(ret.url, ret.method)].mtime >= CacheExpiration
  /\ cache = cache0

\* C13: with 'expire' or 'forever' and no cache_root the constructor raises
\* CacheConfigurationException and no call is ever made on the object; with
\* 'never' the constructor succeeds, cache_root or not.
C13_ConfigChecked ==
  /\ (cache_method \in {"expire", "forever"} /\ cache_root = None) =>
       /\ browser = "CacheConfigurationException"
       /\ calls = 0 /\ op = "none" /\ pc = "idle" /\ transfers = 0
  /\ cache_method = "never" => browser = "ok"
  /\ browser # "ok" => (cache_method \in {"expire", "forever"} /\ cache_root = None)

\* the constructor raised for 'forever' without cache_root
C13_Witness ==
  /\ cache_method = "forever" /\ cache_root = None
  /\ browser = "CacheConfigurationException"

\* the requests of the batch that reached the pending queue
Pending == { n \in Reqs : status[n] \notin {"skipped", "toolong", "hit"} }

\* C14 as claimed: a multi_fetch call ends with ConnectionsNumberException
\* exactly when its pending queue is non-empty and num_conn < 1, and then no
\* handle was created and no transfer started; when the pending queue is
\* empty (only empty, comment, over-long or cached URLs) it returns without
\* raising, whatever num_conn is.
C14_ConnectionsNumber ==
  (op = "multi_fetch" /\ pc \in {"done", "raised"}) =>
    /\ (Pending # {} /\ num_conn_arg < 1) =>
         (pc = "raised" /\ exc = "ConnectionsNumberException" /\ handles = {} /\ transfers = 0)
    /\ exc = "ConnectionsNumberException" => (Pending # {} /\ num_conn_arg < 1)
    /\ Pending = {} => (pc = "done" /\ exc = None)

\* C15 as claimed: the entry returned for a request that was given an id
\* carries that id, be it a cache hit, a successful or a failed transfer.
C15_IdCarried ==
  (op = "multi_fetch" /\ pc \in {"loop", "done"}) =>
    \A n \in Reqs :
      (/\ status[n] \in {"hit", "ok", "error"}
       /\ url_requests[n].id # None
       /\ \A m \in Reqs : m # n => url_requests[m].url # url_requests[n].url)
      => results[url_requests[n].url].id = url_requests[n].id

(* ------------------------- properties: parsers ------------------------- *)
NeitherMode == parser.kind = "list" /\ parser.count_extractor = None /\ parser.max_pages = 0
CountOnly == parser.kind = "list" /\ parser.count_extractor # None /\ parser.max_pages = 0
CountAndMax == parser.kind = "list" /\ parser.count_extractor # None /\ parser.max_pages # 0
BoundMode == parser.kind = "list" /\ (parser.count_extractor # None \/ parser.max_pages # 0)

\* the pages come in the order 1, 2, 3, ...
InOrder == \A i \in 1..Len(fetched) : fetched[i].num = i

\* the items of the pages fetched, in page order
RECURSIVE ItemsOf(_)
ItemsOf(f) == IF f = <<>> THEN <<>> ELSE ExtractItems(Head(f).data).items \o ItemsOf(Tail(f))

\* the count page 1 showed
FirstCount == fetched[1].data.text.count

\* the body of page i contains the stop word
HasWord(i) == ~fetched[i].data.isnone /\ fetched[i].data.text.word

\* C16: with neither a count extractor nor max_pages, the pages fetched are
\* 1, 2, ... in order; stop_function is asked about every page, page 1
\* included: no page follows one it holds of, the crawl goes on after one it
\* does not hold of, and fetch returns after the first page k it holds of
\* with the items of pages 1..k.
C16_StopPredicate ==
  NeitherMode =>
    /\ InOrder
    /\ \A i \in 1..(Len(fetched) - 1) :
         ~fetched[i].raised /\ StopFunction(fetched[i].data) = "False"
    /\ ppc = "scan" => (/\ Len(fetched) >= 1
                        /\ StopFunction(Last(fetched).data) = "False"
                        /\ page_num = Len(fetched) + 1)
    /\ ppc = "done" => (/\ Len(fetched) >= 1
                        /\ StopFunction(Last(fetched).data) = "True"
                        /\ list_results = ItemsOf(fetched))
    /\ (Len(fetched) >= 1 /\ ~Last(fetched).raised /\ StopFunction(Last(fetched).data) = "True")
         => ppc \in {"done", "raised"}

\* a crawl that stopped at page 3 and returned its items
C16_Witness ==
  /\ NeitherMode /\ ppc = "done"
  /\ Len(fetched) = 3
  /\ ~Last(fetched).data.isnone
  /\ Last(fetched).data.text.links = <<Url(1)>>
  /\ Last(list_results) = Url(1)

\* C17 as claimed: with a count extractor and no max_pages, a crawl with no
\* stop word that returns has fetched after page 1 exactly the pages
\* 2 .. c-1 when page 1 shows the count c > 0, and no page when the count is
\* absent or zero.
C17_CountBound ==
  (CountOnly /\ parser.stop_word = None /\ ppc = "done") =>
    /\ InOrder
    /\ Len(fetched) = IF FirstCount = NoCount \/ FirstCount = 0 THEN 1 ELSE Max(1, FirstCount - 1)

\* C17 as amended: the pages fetched after page 1 are 2 .. c-2, in order:
\* never a page above c-2, none when the count is absent or zero, and all of
\* them when fetch returns without a stop word having ended the loop.
C17_CountBoundLessTwo ==
  CountOnly =>
    /\ InOrder
    /\ Len(fetched) >= 2 =>
         (~fetched[1].data.isnone /\ FirstCount # NoCount /\ Len(fetched) <= FirstCount - 2)
    /\ ppc = "done" =>
         /\ ~fetched[1].data.isnone
         /\ (FirstCount = NoCount \/ FirstCount = 0) => Len(fetched) = 1
         /\ (parser.stop_word = None \/ \A i \in 2..Len(fetched) : ~HasWord(i))
              => Len(fetched) = IF FirstCount = NoCount THEN 1 ELSE Max(1, FirstCount - 2)
         /\ list_results = ItemsOf(fetched)

\* count 5: pages 2 and 3 were fetched, page 4 was not
C17_Witness ==
  /\ CountOnly /\ ppc = "done"
  /\ FirstCount = 5
  /\ Len(fetched) = 3
  /\ parser.stop_word = None

\* C18 as claimed: with a count extractor and max_pages, no page above
\* max_pages or above the count c is fetched, and a crawl with no stop word
\* that returns with c > 0 has fetched after page 1 exactly the pages
\* 2 .. min(max_pages, c) - 1.
C18_MinBound ==
  (CountAndMax /\ Len(fetched) >= 1 /\ ~fetched[1].data.isnone /\ FirstCount > 0) =>
    /\ \A i \in 2..Len(fetched) : fetched[i].num <= Min(parser.max_pages, FirstCount)
    /\ (parser.stop_word = None /\ ppc = "done") =>
         Len(fetched) = Max(1, Min(parser.max_pages, FirstCount) - 1)

\* C19 as claimed: under a count or max_pages bound with a stop word, no
\* page is fetched after a page, page 1 included, whose body contains the
\* stop word.
C19_StopWord ==
  (BoundMode /\ parser.stop_word # None) =>
    \A i \in 1..(Len(fetched) - 1) : ~HasWord(i)

\* C19 as amended: the stop word is looked for in the body of every page
\* fetched after page 1: no page follows such a page that contains it, and
\* the loop goes on after one that does not; page 1 is not examined.
C19_StopWordAfterFirst ==
  (BoundMode /\ parser.stop_word # None) =>
    /\ InOrder
    /\ \A i \in 2..(Len(fetched) - 1) : ~HasWord(i)
    /\ (Len(fetched) >= 2 /\ HasWord(Len(fetched))) => ppc \in {"done", "raised"}
    /\ (ppc = "done" /\ Len(fetched) >= 2 /\ ~HasWord(Len(fetched))) => pages = <<>>

\* max_pages 3: page 2 contained the stop word and page 3 was not fetched
C19_Witness ==
  /\ BoundMode /\ parser.stop_word # None
  /\ parser.count_extractor = None /\ parser.max_pages = 3
  /\ ppc = "done"
  /\ Len(fetched) = 2
  /\ HasWord(2)

\* the bulk fetch of a SearchParser has returned its entries
BulkReturned == parser.kind = "search" /\ ppc \in {"entries", "done", "raised"} /\ op = "multi_fetch" /\ pc = "done"

\* C20 as claimed: once the bulk fetch has returned, SearchParser.fetch
\* raises nothing: an error entry or a failed extraction is skipped, every
\* record is tagged with the reference it was extracted from, and fetch
\* returns the records of all references that were fetched and extracted.
C20_SearchSkipsFailures ==
  BulkReturned =>
    /\ ppc # "raised"
    /\ \A i \in 1..Len(lresults) :
         /\ lresults[i].link \in DOMAIN results
         /\ results[lresults[i].link].result = "ok"
         /\ lresults[i].text = results[lresults[i].link].data.text
    /\ ppc = "done" =>
         { lresults[i].link : i \in 1..Len(lresults) } =
           { u \in DOMAIN results : results[u].result = "ok" /\ parser.page_data_extractor # "badxpath" }

(* ----------------------- properties: handle pool ----------------------- *)
Free == Range(freelist)

\* free list and active handles partition the pool created at line 431
Partition ==
  /\ \A i \in 1..Len(freelist), j \in 1..Len(freelist) : i # j => freelist[i] # freelist[j]
  /\ Free \cap Active = {}
  /\ Free \cup Active = handles
  /\ Len(freelist) + Cardinality(Active) = Min(num_conn_arg, num_urls)
  /\ \A h \in Active :
       /\ curl[h].n \in Reqs
       /\ status[curl[h].n] = "active"
       /\ url_requests[curl[h].n].url = curl[h].url
       /\ \A k \in Active : k # h => curl[k].n # curl[h].n

\* C24: in every state of the multi_fetch loop the free list and the active
\* handles partition the pool, each active handle is bound to one request
\* of its own, a handle leaves the active set only by being harvested, which
\* puts it on the free list, and leaves the free list only by being bound.
C24_PoolPartition ==
  [][(InLoop' => Partition') /\
     ((InLoop /\ InLoop') =>
        \A h \in handles :
          /\ (h \in Active /\ h \notin Active') =>
               /\ pc = "info_read"
               /\ curl[h].state \in {"ok", "err"}
               /\ h \in Free'
               /\ status'[curl[h].n] \in {"ok", "error"}
          /\ (h \in Free /\ h \notin Free') =>
               /\ pc = "loop"
               /\ h \in Active')]_vars

\* a handle is back on the free list while the other one is still active
C24_Witness ==
  /\ InLoop /\ pc = "loop"
  /\ Cardinality(handles) = 2
  /\ Len(freelist) = 1
  /\ Cardinality(Active) = 1
  /\ num_processed = 1

\* C25: a harvest round records every finished transfer under the URL its
\* handle was given, with that transfer's outcome, and puts the handle on
\* the free list in the same step; a handle is bound to a new request only
\* out of the free list, and binding touches no result: every request
\* handled so far keeps an entry under its own URL.
C25_HarvestBeforeReuse ==
  [][/\ (pc = "info_read" /\ pc' = "loop") =>
          \A h \in handles : curl[h].state \in {"ok", "err"} =>
            /\ curl[h].url \in DOMAIN results'
            /\ results'[curl[h].url].url = curl[h].url
            /\ \E k \in handles :
                 /\ curl[k].url = curl[h].url
                 /\ curl[k].state \in {"ok", "err"}
                 /\ IF curl[k].state = "ok"
                      THEN /\ results'[curl[h].url].result = "ok"
                           /\ results'[curl[h].url].code = curl[k].resp.code
                           /\ results'[curl[h].url].data.text = curl[k].resp.body.text
                      ELSE results'[curl[h].url].result = "error"
            /\ h \in Free'
            /\ curl'[h].state = "free"
     /\ (pc = "loop" /\ pc' = "perform") =>
          /\ results' = results
          /\ \A h \in handles : curl'[h].state # curl[h].state =>
               (h \in Free /\ curl[h].state = "free" /\ curl'[h].state = "running")
     /\ InLoop' =>
          /\ \A u \in DOMAIN results' : results'[u].url = u
          /\ \A n \in 1..Len(status') : status'[n] \in {"ok", "error", "hit"} =>
               url_requests'[n].url \in DOMAIN results']_vars

\* a handle that served one request serves another, both results recorded
\* under their own URLs
C25_Witness ==
  /\ op = "multi_fetch" /\ pc = "done"
  /\ num_conn = 1 /\ num_urls = 2
  /\ status = <<"ok", "ok">>
  /\ url_requests[1].url # url_requests[2].url
  /\ results[url_requests[1].url].data.text # results[url_requests[2].url].data.text

\* C27 as claimed: every transfer in flight carries the referer of its own
\* request, none when the request has none.
C27_OwnReferer ==
  InLoop => \A h \in Active : curl[h].referer = url_requests[curl[h].n].ref

\* C28 as claimed: ListParser.fetch returns only when every page fetch it
\* issued succeeded, and then with the items of the pages in page order.
C28_AllPagesOrRaise ==
  (parser.kind = "list" /\ ppc = "done") =>
    /\ \A i \in 1..Len(fetched) : ~fetched[i].data.isnone
    /\ list_results = ItemsOf(fetched)

\* C26: if every transfer that was started finishes, the multi_fetch loop
\* is left, whatever the batch (repeated URLs included), the connection
\* count and the percentile; with percentile 100 it is left by return only
\* when every pending request was started and harvested.
C26_Terminates ==
  /\ InLoop ~> ~InLoop
  /\ []((op = "multi_fetch" /\ pc = "done" /\ percentile = 100 /\ num_urls > 0) =>
          (num_processed = num_urls /\ \A n \in Reqs : ~Dropped(n)))

\* a batch of three requests, two of them for one URL, over one connection,
\* processed to the end
C26_Witness ==
  /\ op = "multi_fetch" /\ pc = "done"
  /\ num_conn = 1 /\ num_urls = 3 /\ num_processed = 3
  /\ percentile = 100
  /\ url_requests[1].url = url_requests[3].url

\* some line of the header block names the header and the coding
MentionsGzip(lines) ==
  \E i \in 1..Len(lines) : In("Content-Encoding", lines[i]) /\ In("gzip", lines[i])

\* the block holds the line "Content-Encoding: gzip" and no other line
\* about the coding
DeclaresGzip(lines) ==
  \E i \in 1..Len(lines) :
    /\ lines[i] \in {<<"Content-Encoding", ":", " ", "gzip", "\r">>, <<"Content-Encoding", ":", "gzip">>}
    /\ \A j \in 1..Len(lines) : j # i => ~In("Content-Encoding", lines[j])

\* C23: __normalize_data returns a body for every header block and body:
\* the body it was given when gzip is declared and the body is no gzip
\* stream, the body it was given when gzip is not declared, and the
\* decompressed body only when gzip is declared and the body is a gzip
\* stream.
C23_NormalizerNeverFails ==
  fpc = "normalized" =>
    /\ normalized \in {strbuff, [gz |-> FALSE, text |-> strbuff.text]}
    /\ ~strbuff.gz => normalized = strbuff
    /\ ~MentionsGzip(cheaders) => normalized = strbuff
    /\ normalized # strbuff => (MentionsGzip(cheaders) /\ strbuff.gz /\ ~normalized.gz)
    /\ (DeclaresGzip(cheaders) /\ strbuff.gz) => normalized = [gz |-> FALSE, text |-> strbuff.text]

\* gzip declared by the last of two header lines, the body plain text
C23_Witness ==
  /\ fpc = "normalized"
  /\ Len(cheaders) = 2
  /\ cheaders[2] = <<"Content-Encoding", ":", " ", "gzip", "\r">>
  /\ strbuff = [gz |-> FALSE, text |-> "page"]
  /\ normalized = strbuff

\* the schema is one xpath field of mode single (or without mode), without
\* a parser, applied to a string or an element
SingleXPath ==
  /\ Cardinality(DOMAIN extractor) = 1
  /\ \A f \in DOMAIN extractor :
       extractor[f].type = "xpath" /\ extractor[f].mode \in {"absent", "single"} /\ ~extractor[f].parser
  /\ element.kind \in {"str", "tree"}

\* C21: for a schema of one single-mode xpath field extract raises nothing;
\* the field is the matched text when the document holds exactly one match,
\* and None when nothing matches, when the expression cannot be evaluated
\* or when the string could not be parsed.
C21_SingleField ==
  (fpc = "extracted" /\ SingleXPath) =>
    \A f \in DOMAIN extractor :
      /\ extracted.raised = None
      /\ (element.parses /\ extractor[f].valid /\ Len(element.matches) = 1)
           => extracted.fields[f] = Text(Join(element.matches))
      /\ (~element.parses \/ ~extractor[f].valid \/ Len(element.matches) = 0)
           => extracted.fields[f] = Null

\* C22: extract on a string with a schema of regexp fields only raises
\* nothing; every field is the text of group "content" when the pattern
\* matches and None when it does not, nothing is parsed, and the record
\* has its lxml_handle entry.
C22_RegexpOnly ==
  (/\ fpc = "extracted"
   /\ element.kind = "str"
   /\ DOMAIN extractor # {}
   /\ \A f \in DOMAIN extractor : extractor[f].type = "regexp" /\ ~extractor[f].parser)
  => /\ extracted.raised = None
     /\ \A f \in DOMAIN extractor :
          extracted.fields[f] = IF element.groups.matched THEN Text(element.groups.content) ELSE Null
     /\ extracted.lxml_handle = None

====
